---- MODULE Spec2Model ----
(***************************************************************************)
(* Register-level model of the G233 SPI master controller                  *)
(* (hw/ssi/g233_spi.c, include/hw/ssi/g233_spi.h).                         *)
(*                                                                         *)
(* A uint32_t / uint64_t value is the set of its set bit positions, so     *)
(* that &, | and ~ are set intersection, union and complement and a        *)
(* narrowing cast is an intersection with the bits the type keeps.         *)
(* Every register access and the reset handler run to completion in one    *)
(* step: the device is driven by synchronous callbacks only.               *)
(***************************************************************************)
EXTENDS Integers, FiniteSets, Sequences, TLC

----------------------------------------------------------------------------
(* Machine words as bit sets *)

U32Bits == 0..31
U8Bits == 0..7

\* (uint32_t)v
U32(v) == v \cap U32Bits
\* (uint8_t)v
U8(v) == v \cap U8Bits
\* 0xFFFFFFFF
AllOnes == U32Bits
\* 0
Zero == {}

----------------------------------------------------------------------------
(* include/hw/ssi/g233_spi.h *)

SPI_CR1 == 0
SPI_CR2 == 4
SPI_SR == 8
SPI_DR == 12
SPI_CSCTRL == 16

G233_SPI_CR1_SPE == {6}
G233_SPI_CR1_MSTR == {2}

G233_SPI_SR_RXNE == {0}
G233_SPI_SR_TXE == {1}
G233_SPI_SR_UDR == {2}
G233_SPI_SR_OVR == {3}
G233_SPI_SR_BSY == {7}

G233_SPI_CS0_ENABLE == {0}
G233_SPI_CS1_ENABLE == {1}
G233_SPI_CS0_ACTIVE == {4}
G233_SPI_CS1_ACTIVE == {5}

\* CR2 interrupt enable bits, written (1u << 7), (1u << 6), (1u << 5)
CR2_TXEIE == {7}
CR2_RXNEIE == {6}
CR2_ERRIE == {5}

\* indices into cs_lines[3]
LINE_CS0 == 0
LINE_CS1 == 1
LINE_IRQ == 2
Lines == {LINE_CS0, LINE_CS1, LINE_IRQ}

----------------------------------------------------------------------------
(* Inputs *)

\* offsets the bus may present: the five registers and offsets that decode
\* to none of them (0x14 right after CSCTRL, 0xFFC the last word of the
\* 0x1000 window)
ValidAddrs == {SPI_CR1, SPI_CR2, SPI_SR, SPI_DR, SPI_CSCTRL}
BadAddrs == {20, 4092}
Addrs == ValidAddrs \cup BadAddrs

\* values written, per offset
WriteVals(addr) ==
    CASE addr = SPI_CR1 -> {Zero, {2}, {6}, {2, 6}, AllOnes}
      [] addr = SPI_CR2 -> {Zero, {5}, {6}, {7}, AllOnes}
      [] addr = SPI_SR -> {Zero, {2}, {3}, {2, 3}, {0, 1, 7}, AllOnes}
      [] addr = SPI_DR -> {Zero, {1, 3, 4, 6}, {1, 3, 4, 6, 8}}
      [] addr = SPI_CSCTRL -> (SUBSET {0, 1, 4, 5}) \cup {AllOnes}
      [] OTHER -> {Zero, AllOnes}

\* words the transport may return from one exchange: 0xA5, 0x1A5, 0x3C,
\* 0xFFFFFFFF, 0
RxSamples == << {0, 2, 5, 7}, {0, 2, 5, 7, 8}, {2, 3, 4, 5}, AllOnes, Zero >>
NumRx == 3
RxVals == {RxSamples[i] : i \in 1..NumRx}
\* the transport answers only a DR write; it is not consulted otherwise
RxFor(addr) == IF addr = SPI_DR THEN RxVals ELSE {Zero}

\* no exchange since the last reset
NoRx == <<>>
\* the reset handler takes no offset
NoAddr == 0 - 1

----------------------------------------------------------------------------
(* State *)

VARIABLES
    cr1, cr2, sr, dr, csctrl,      \* registers
    rx_data,                       \* last received byte
    spe, mstr,                     \* CR1 mirrors
    cs0_en, cs0_act, cs1_en, cs1_act,   \* CSCTRL mirrors
    cs_lines,                      \* level last driven on each output line
    last_rx,                       \* <<word>> the latest exchange since reset returned
    acc                            \* the access that produced this state

regs == <<cr1, cr2, sr, dr, csctrl>>
flags == <<spe, mstr, cs0_en, cs0_act, cs1_en, cs1_act>>
vars == <<cr1, cr2, sr, dr, csctrl, rx_data, spe, mstr,
          cs0_en, cs0_act, cs1_en, cs1_act, cs_lines, last_rx, acc>>

\* what one access did, as seen from outside the device: the handler run
\* (kind, addr, val), SR as the handler found it (sr0), the value returned,
\* the calls made to the transport, the output lines driven through
\* qemu_set_irq and whether a guest error was logged
Access(kind, addr, val, ret, exch, driven, logged) ==
    [kind |-> kind, addr |-> addr, val |-> val, sr0 |-> sr, ret |-> ret,
     exch |-> exch, driven |-> driven, logged |-> logged]

----------------------------------------------------------------------------
(* g233_spi_update_cs *)

\* variant: the line follows the active bit alone, the enable bit ignored
CsLevel_ActOnly(en, act) == IF act THEN 0 ELSE 1

CsLevel(en, act) == IF en /\ act THEN 0 ELSE 1

\* the lines after g233_spi_update_cs with the given flags
UpdateCs(lines, e0, a0, e1, a1) ==
    [lines EXCEPT ![LINE_CS0] = CsLevel(e0, a0), ![LINE_CS1] = CsLevel(e1, a1)]

(* g233_spi_update_irq *)

\* variant: the error interrupt looks at UDR alone, OVR left out
IrqLevel_NoOvr(c2, s) ==
    IF \/ (c2 \cap CR2_TXEIE) # {} /\ (s \cap G233_SPI_SR_TXE) # {}
       \/ (c2 \cap CR2_RXNEIE) # {} /\ (s \cap G233_SPI_SR_RXNE) # {}
       \/ (c2 \cap CR2_ERRIE) # {} /\ (s \cap G233_SPI_SR_UDR) # {}
    THEN 1 ELSE 0

IrqLevel(c2, s) ==
    LET irq0 == FALSE
        irq1 == IF (c2 \cap CR2_TXEIE) # {} /\ (s \cap G233_SPI_SR_TXE) # {}
                THEN TRUE ELSE irq0
        irq2 == IF (c2 \cap CR2_RXNEIE) # {} /\ (s \cap G233_SPI_SR_RXNE) # {}
                THEN TRUE ELSE irq1
        irq3 == IF (c2 \cap CR2_ERRIE) # {}
                   /\ (s \cap (G233_SPI_SR_UDR \cup G233_SPI_SR_OVR)) # {}
                THEN TRUE ELSE irq2
    IN  IF irq3 THEN 1 ELSE 0

\* the lines after g233_spi_update_irq with the given CR2 and SR
UpdateIrq(lines, c2, s) == [lines EXCEPT ![LINE_IRQ] = IrqLevel(c2, s)]

----------------------------------------------------------------------------
(* g233_spi_reset *)

\* variant: the reset without its call of g233_spi_update_cs
Reset_NoCsUpdate ==
    /\ cr1' = Zero
    /\ cr2' = Zero
    /\ sr' = G233_SPI_SR_TXE
    /\ rx_data' = Zero
    /\ spe' = FALSE
    /\ mstr' = FALSE
    /\ cs0_en' = FALSE
    /\ cs0_act' = FALSE
    /\ cs1_en' = FALSE
    /\ cs1_act' = FALSE
    /\ cs_lines' = UpdateIrq(cs_lines, cr2', sr')
    /\ UNCHANGED <<dr, csctrl>>
    /\ last_rx' = NoRx
    /\ acc' = Access("reset", NoAddr, Zero, Zero, <<>>, {LINE_IRQ}, FALSE)

Reset ==
    /\ cr1' = Zero
    /\ cr2' = Zero
    /\ sr' = G233_SPI_SR_TXE
    /\ rx_data' = Zero
    /\ spe' = FALSE
    /\ mstr' = FALSE
    /\ cs0_en' = FALSE
    /\ cs0_act' = FALSE
    /\ cs1_en' = FALSE
    /\ cs1_act' = FALSE
    /\ cs_lines' = UpdateIrq(UpdateCs(cs_lines, cs0_en', cs0_act', cs1_en', cs1_act'),
                             cr2', sr')
    /\ UNCHANGED <<dr, csctrl>>
    /\ last_rx' = NoRx
    /\ acc' = Access("reset", NoAddr, Zero, Zero, <<>>, Lines, FALSE)

----------------------------------------------------------------------------
(* g233_spi_do_transfer *)

\* variant: the transfer starts without setting BSY
SrAtExchange_NoBsy(s) == s \ G233_SPI_SR_TXE

\* SR while ssi_transfer runs
SrAtExchange(s) == (s \ G233_SPI_SR_TXE) \cup G233_SPI_SR_BSY

\* variant: BSY is not cleared on completion
SrAfterExchange_KeepBsy(s) ==
    LET s1 == IF (s \cap G233_SPI_SR_RXNE) # {} THEN s \cup G233_SPI_SR_OVR ELSE s
    IN  (s1 \cup G233_SPI_SR_RXNE) \cup G233_SPI_SR_TXE

\* variant: TXE is not set again on completion
SrAfterExchange_NoTxe(s) ==
    LET s1 == IF (s \cap G233_SPI_SR_RXNE) # {} THEN s \cup G233_SPI_SR_OVR ELSE s
    IN  (s1 \cup G233_SPI_SR_RXNE) \ G233_SPI_SR_BSY

\* variant: the overrun is flagged in UDR
SrAfterExchange_WrongBit(s) ==
    LET s1 == IF (s \cap G233_SPI_SR_RXNE) # {} THEN s \cup G233_SPI_SR_UDR ELSE s
    IN  ((s1 \cup G233_SPI_SR_RXNE) \cup G233_SPI_SR_TXE) \ G233_SPI_SR_BSY

\* variant: the overrun test left out
SrAfterExchange_NoOvr(s) ==
    ((s \cup G233_SPI_SR_RXNE) \cup G233_SPI_SR_TXE) \ G233_SPI_SR_BSY

\* SR once ssi_transfer has returned, from SR as it was during the call
SrAfterExchange(s) ==
    LET s1 == IF (s \cap G233_SPI_SR_RXNE) # {} THEN s \cup G233_SPI_SR_OVR ELSE s
        s2 == s1 \cup G233_SPI_SR_RXNE
        s3 == s2 \cup G233_SPI_SR_TXE
    IN  s3 \ G233_SPI_SR_BSY

\* rx_data = (uint8_t)rx
RxByte(rx) == U8(rx)

\* the call ssi_transfer(s->ssi, tx) as the transport sees it: the byte sent,
\* and SR and the interrupt line as they stand during the call
ExchangeCall(tx) ==
    [tx |-> tx, sr |-> SrAtExchange(sr), irq |-> cs_lines[LINE_IRQ]]

\* the whole transfer of byte tx, the transport answering rx
DoTransfer(tx, rx) ==
    /\ sr' = SrAfterExchange(SrAtExchange(sr))
    /\ rx_data' = RxByte(rx)
    /\ cs_lines' = UpdateIrq(cs_lines, cr2, sr')
    /\ last_rx' = <<rx>>

----------------------------------------------------------------------------
(* g233_spi_read *)

ReadCR1 ==
    /\ acc' = Access("read", SPI_CR1, Zero, cr1, <<>>, {}, FALSE)
    /\ UNCHANGED <<regs, rx_data, flags, cs_lines, last_rx>>

ReadCR2 ==
    /\ acc' = Access("read", SPI_CR2, Zero, cr2, <<>>, {}, FALSE)
    /\ UNCHANGED <<regs, rx_data, flags, cs_lines, last_rx>>

\* variant: reading SR clears OVR
ReadSR_ClearsOvr ==
    /\ sr' = sr \ G233_SPI_SR_OVR
    /\ acc' = Access("read", SPI_SR, Zero, sr, <<>>, {}, FALSE)
    /\ UNCHANGED <<cr1, cr2, dr, csctrl, rx_data, flags, cs_lines, last_rx>>

ReadSR ==
    /\ acc' = Access("read", SPI_SR, Zero, sr, <<>>, {}, FALSE)
    /\ UNCHANGED <<regs, rx_data, flags, cs_lines, last_rx>>

\* variant: the DR read clears RXNE alone
SrAfterDrRead_KeepOvr(s) == s \ G233_SPI_SR_RXNE

\* SR after the two clears of the DR read
SrAfterDrRead(s) == (s \ G233_SPI_SR_RXNE) \ G233_SPI_SR_OVR

\* variant: the DR read returns the byte last written
DrReadValue_Written == dr

\* uint32_t val = s->rx_data
DrReadValue == rx_data

ReadDR ==
    /\ sr' = SrAfterDrRead(sr)
    /\ cs_lines' = UpdateIrq(cs_lines, cr2, sr')
    /\ acc' = Access("read", SPI_DR, Zero, DrReadValue, <<>>, {LINE_IRQ}, FALSE)
    /\ UNCHANGED <<cr1, cr2, dr, csctrl, rx_data, flags, last_rx>>

ReadCSCTRL ==
    /\ acc' = Access("read", SPI_CSCTRL, Zero, csctrl, <<>>, {}, FALSE)
    /\ UNCHANGED <<regs, rx_data, flags, cs_lines, last_rx>>

ReadDefault(addr) ==
    /\ acc' = Access("read", addr, Zero, Zero, <<>>, {}, TRUE)
    /\ UNCHANGED <<regs, rx_data, flags, cs_lines, last_rx>>

g233_spi_read(addr) ==
    CASE addr = SPI_CR1 -> ReadCR1
      [] addr = SPI_CR2 -> ReadCR2
      [] addr = SPI_SR -> ReadSR
      [] addr = SPI_DR -> ReadDR
      [] addr = SPI_CSCTRL -> ReadCSCTRL
      [] OTHER -> ReadDefault(addr)

----------------------------------------------------------------------------
(* g233_spi_write *)

\* variant: a CR1 write that makes the transfer condition true sends the byte
\* waiting in DR
WriteCR1_SendsPending(val) ==
    /\ cr1' = val
    /\ spe' = ((val \cap G233_SPI_CR1_SPE) # {})
    /\ mstr' = ((val \cap G233_SPI_CR1_MSTR) # {})
    /\ IF spe' /\ mstr' /\ ((cs0_en /\ cs0_act) # (cs1_en /\ cs1_act))
       THEN /\ \E rx \in RxVals : DoTransfer(U8(dr), rx)
            /\ acc' = Access("write", SPI_CR1, val, Zero,
                             << ExchangeCall(U8(dr)) >>, {LINE_IRQ}, FALSE)
       ELSE /\ acc' = Access("write", SPI_CR1, val, Zero, <<>>, {}, FALSE)
            /\ UNCHANGED <<sr, rx_data, cs_lines, last_rx>>
    /\ UNCHANGED <<cr2, dr, csctrl, cs0_en, cs0_act, cs1_en, cs1_act>>

WriteCR1(val) ==
    /\ cr1' = val
    /\ spe' = ((val \cap G233_SPI_CR1_SPE) # {})
    /\ mstr' = ((val \cap G233_SPI_CR1_MSTR) # {})
    /\ acc' = Access("write", SPI_CR1, val, Zero, <<>>, {}, FALSE)
    /\ UNCHANGED <<cr2, sr, dr, csctrl, rx_data,
                   cs0_en, cs0_act, cs1_en, cs1_act, cs_lines, last_rx>>

WriteCR2(val) ==
    /\ cr2' = val
    /\ cs_lines' = UpdateIrq(cs_lines, cr2', sr)
    /\ acc' = Access("write", SPI_CR2, val, Zero, <<>>, {LINE_IRQ}, FALSE)
    /\ UNCHANGED <<cr1, sr, dr, csctrl, rx_data, flags, last_rx>>

\* variant: any SR write clears OVR and UDR, whatever the value written
SrAfterWrite_ClearsAlways(s, val) ==
    s \cap (AllOnes \ (G233_SPI_SR_OVR \cup G233_SPI_SR_UDR))

\* variant: s->sr &= ~val, the mask to OVR | UDR left out
SrAfterWrite_Unmasked(s, val) == s \cap (AllOnes \ val)

\* s->sr &= ~(val & (OVR | UDR))
SrAfterWrite(s, val) ==
    LET tmp == val \cap (G233_SPI_SR_OVR \cup G233_SPI_SR_UDR)
    IN  s \cap (AllOnes \ tmp)

WriteSR(val) ==
    /\ sr' = SrAfterWrite(sr, val)
    /\ cs_lines' = UpdateIrq(cs_lines, cr2, sr')
    /\ acc' = Access("write", SPI_SR, val, Zero, <<>>, {LINE_IRQ}, FALSE)
    /\ UNCHANGED <<cr1, cr2, dr, csctrl, rx_data, flags, last_rx>>

\* variant: || in place of ^ between the two chip selects
TransferQualifies_AnyCs(p, m, e0, a0, e1, a1) ==
    p /\ m /\ ((e0 /\ a0) \/ (e1 /\ a1))

\* the condition under which a DR write starts a transfer
TransferQualifies(p, m, e0, a0, e1, a1) ==
    LET cs0_active == (e0 /\ a0)
        cs1_active == (e1 /\ a1)
    IN  p /\ m /\ (cs0_active # cs1_active)

\* s->dr = val & 0xFF
DrStored(val) == val \cap U8Bits

WriteDR(val, rx) ==
    /\ dr' = DrStored(val)
    /\ IF TransferQualifies(spe, mstr, cs0_en, cs0_act, cs1_en, cs1_act)
       THEN /\ DoTransfer(U8(dr'), rx)
            /\ acc' = Access("write", SPI_DR, val, Zero,
                             << ExchangeCall(U8(dr')) >>, {LINE_IRQ}, FALSE)
       ELSE /\ acc' = Access("write", SPI_DR, val, Zero, <<>>, {}, FALSE)
            /\ UNCHANGED <<sr, rx_data, cs_lines, last_rx>>
    /\ UNCHANGED <<cr1, cr2, csctrl, flags>>

WriteCSCTRL(val) ==
    /\ csctrl' = val
    /\ cs0_en' = ((val \cap G233_SPI_CS0_ENABLE) # {})
    /\ cs1_en' = ((val \cap G233_SPI_CS1_ENABLE) # {})
    /\ cs0_act' = ((val \cap G233_SPI_CS0_ACTIVE) # {})
    /\ cs1_act' = ((val \cap G233_SPI_CS1_ACTIVE) # {})
    /\ cs_lines' = UpdateCs(cs_lines, cs0_en', cs0_act', cs1_en', cs1_act')
    /\ acc' = Access("write", SPI_CSCTRL, val, Zero, <<>>, {LINE_CS0, LINE_CS1}, FALSE)
    /\ UNCHANGED <<cr1, cr2, sr, dr, rx_data, spe, mstr, last_rx>>

\* variant: an undecoded offset falls into the DR store
WriteDefault_StoresDr(addr, val) ==
    /\ dr' = val \cap U8Bits
    /\ acc' = Access("write", addr, val, Zero, <<>>, {}, TRUE)
    /\ UNCHANGED <<cr1, cr2, sr, csctrl, rx_data, flags, cs_lines, last_rx>>

WriteDefault(addr, val) ==
    /\ acc' = Access("write", addr, val, Zero, <<>>, {}, TRUE)
    /\ UNCHANGED <<regs, rx_data, flags, cs_lines, last_rx>>

\* val64 is the value on the bus, rx what the transport answers if asked
g233_spi_write(addr, val64, rx) ==
    LET val == U32(val64) IN
    CASE addr = SPI_CR1 -> WriteCR1(val)
      [] addr = SPI_CR2 -> WriteCR2(val)
      [] addr = SPI_SR -> WriteSR(val)
      [] addr = SPI_DR -> WriteDR(val, rx)
      [] addr = SPI_CSCTRL -> WriteCSCTRL(val)
      [] OTHER -> WriteDefault(addr, val)

----------------------------------------------------------------------------
(* The device between accesses *)

\* the zero-filled instance after realize and the reset of machine start
Init ==
    /\ cr1 = Zero
    /\ cr2 = Zero
    /\ sr = G233_SPI_SR_TXE
    /\ dr = Zero
    /\ csctrl = Zero
    /\ rx_data = Zero
    /\ spe = FALSE
    /\ mstr = FALSE
    /\ cs0_en = FALSE
    /\ cs0_act = FALSE
    /\ cs1_en = FALSE
    /\ cs1_act = FALSE
    /\ cs_lines = [l \in Lines |-> IF l = LINE_IRQ THEN 0 ELSE 1]
    /\ last_rx = NoRx
    /\ acc = [kind |-> "reset", addr |-> NoAddr, val |-> Zero, sr0 |-> Zero,
              ret |-> Zero, exch |-> <<>>, driven |-> Lines, logged |-> FALSE]

Read == \E addr \in Addrs : g233_spi_read(addr)

Write == \E addr \in Addrs : \E val64 \in WriteVals(addr) : \E rx \in RxFor(addr) :
             g233_spi_write(addr, val64, rx)

Next == Reset \/ Read \/ Write

Spec == Init /\ [][Next]_vars

----------------------------------------------------------------------------
(* vmstate_g233_spi: save and restore *)

\* the mutable fields of G233SPIState as they stand
Current ==
    [cr1 |-> cr1, cr2 |-> cr2, sr |-> sr, dr |-> dr, csctrl |-> csctrl,
     rx_data |-> rx_data, spe |-> spe, mstr |-> mstr,
     cs0_en |-> cs0_en, cs0_act |-> cs0_act,
     cs1_en |-> cs1_en, cs1_act |-> cs1_act]

\* the same fields of an instance that was built and reset and never accessed
Fresh ==
    [cr1 |-> Zero, cr2 |-> Zero, sr |-> G233_SPI_SR_TXE, dr |-> Zero,
     csctrl |-> Zero, rx_data |-> Zero, spe |-> FALSE, mstr |-> FALSE,
     cs0_en |-> FALSE, cs0_act |-> FALSE, cs1_en |-> FALSE, cs1_act |-> FALSE]

\* variant: the six flags left out of the description as derived state
VmstateFields_NoFlags == {"cr1", "cr2", "sr", "dr", "csctrl", "rx_data"}

\* the fields vmstate_g233_spi lists
VmstateFields ==
    {"cr1", "cr2", "sr", "dr", "csctrl", "rx_data",
     "spe", "mstr", "cs0_en", "cs0_act", "cs1_en", "cs1_act"}

\* what a save writes out
SavedState == [f \in VmstateFields |-> Current[f]]

\* a fresh instance after the saved fields were loaded into it; the
\* description has no post_load hook, so nothing else is recomputed
Loaded(saved) ==
    [f \in DOMAIN Fresh |-> IF f \in DOMAIN saved THEN saved[f] ELSE Fresh[f]]

\* the device is saved and execution goes on with a restored instance.  The
\* restore drives no output line; each line stays at the level its consumer
\* holds, which the consumer carries over itself.
Migrate ==
    LET st == Loaded(SavedState) IN
    /\ cr1' = st.cr1
    /\ cr2' = st.cr2
    /\ sr' = st.sr
    /\ dr' = st.dr
    /\ csctrl' = st.csctrl
    /\ rx_data' = st.rx_data
    /\ spe' = st.spe
    /\ mstr' = st.mstr
    /\ cs0_en' = st.cs0_en
    /\ cs0_act' = st.cs0_act
    /\ cs1_en' = st.cs1_en
    /\ cs1_act' = st.cs1_act
    /\ acc' = Access("restore", NoAddr, Zero, Zero, <<>>, {}, FALSE)
    /\ UNCHANGED <<cs_lines, last_rx>>

NextMig == Next \/ Migrate

SpecMig == Init /\ [][NextMig]_vars

----------------------------------------------------------------------------
(* Properties *)

IsAccess(a, kind, addr) == a.kind = kind /\ a.addr = addr

HasBit(w, b) == b \in w

\* spe && mstr && ((cs0_en && cs0_act) XOR (cs1_en && cs1_act)), as documented
Qualifying ==
    /\ spe
    /\ mstr
    /\ \/ (cs0_en /\ cs0_act) /\ ~(cs1_en /\ cs1_act)
       \/ ~(cs0_en /\ cs0_act) /\ (cs1_en /\ cs1_act)

\* the documented interrupt level for a CR2 and an SR
IrqExpected(c2, s) ==
    IF \/ HasBit(c2, 7) /\ HasBit(s, 1)
       \/ HasBit(c2, 6) /\ HasBit(s, 0)
       \/ HasBit(c2, 5) /\ (HasBit(s, 2) \/ HasBit(s, 3))
    THEN 1 ELSE 0

AllFlagsFalse ==
    ~spe /\ ~mstr /\ ~cs0_en /\ ~cs0_act /\ ~cs1_en /\ ~cs1_act

\* C1: a write to DR calls the transport exactly when
\* spe && mstr && (cs0 selected XOR cs1 selected) holds on entry, and a DR
\* write that does not call it leaves SR as it was.
C1_TransferGating ==
    [][IsAccess(acc', "write", SPI_DR) =>
          /\ (acc'.exch # <<>>) <=> Qualifying
          /\ Len(acc'.exch) <= 1
          /\ ~Qualifying => sr' = sr]_vars

\* C1 witness: DR written with SPI enabled in master mode and both chip
\* selects enabled and active, a received byte and an overrun pending: no
\* exchange, SR as before.
C1_Witness ==
    /\ IsAccess(acc, "write", SPI_DR)
    /\ spe /\ mstr /\ cs0_en /\ cs0_act /\ cs1_en /\ cs1_act
    /\ acc.exch = <<>>
    /\ acc.sr0 = {0, 1, 3}
    /\ sr = {0, 1, 3}

\* C2: right after a reset CR1, CR2, DR and CSCTRL are 0, SR is TXE alone,
\* rx_data is 0 and the six flags are false.
C2_ResetRegisters ==
    acc.kind = "reset" =>
        /\ cr1 = Zero
        /\ cr2 = Zero
        /\ dr = Zero
        /\ csctrl = Zero
        /\ sr = G233_SPI_SR_TXE
        /\ rx_data = Zero
        /\ AllFlagsFalse

\* C3: a reset drives all three output lines itself and leaves both chip
\* selects deasserted (1) and the interrupt line low (0).
C3_ResetOutputs ==
    acc.kind = "reset" =>
        /\ acc.driven = Lines
        /\ cs_lines[LINE_CS0] = 1
        /\ cs_lines[LINE_CS1] = 1
        /\ cs_lines[LINE_IRQ] = 0

\* C3 witness: a reset taken when the last CSCTRL write had asserted both
\* chip selects and an overrun was pending.
C3_Witness ==
    /\ acc.kind = "reset"
    /\ acc.sr0 = {0, 1, 3}
    /\ {0, 1, 4, 5} \subseteq csctrl
    /\ cs_lines = [l \in Lines |-> IF l = LINE_IRQ THEN 0 ELSE 1]

\* C4: a qualifying DR write made while RXNE is set still performs the
\* exchange, replaces rx_data by the low byte of the word returned and sets
\* OVR; a transfer started with RXNE clear leaves OVR as it was.
C4_OverrunReported ==
    [][(IsAccess(acc', "write", SPI_DR) /\ Qualifying) =>
          /\ Len(acc'.exch) = 1
          /\ last_rx' # NoRx
          /\ rx_data' = (last_rx'[1] \cap U8Bits)
          /\ HasBit(sr, 0) => HasBit(sr', 3)
          /\ ~HasBit(sr, 0) => (HasBit(sr', 3) <=> HasBit(sr, 3))]_vars

\* C4 witness: a transfer started with RXNE set and OVR clear; the transport
\* answered 0x3C, rx_data holds it and OVR is now set.
C4_Witness ==
    /\ IsAccess(acc, "write", SPI_DR)
    /\ Len(acc.exch) = 1
    /\ acc.sr0 = {0, 1}
    /\ sr = {0, 1, 3}
    /\ rx_data = {2, 3, 4, 5}

\* C5: a read of DR clears RXNE and OVR and nothing else: the other SR bits,
\* CR1, CR2, DR, CSCTRL, rx_data and the flags keep their values, and the
\* interrupt line is driven to the level of CR2 and the new SR.
C5_DrReadEffect ==
    [][IsAccess(acc', "read", SPI_DR) =>
          /\ sr' = sr \ {0, 3}
          /\ UNCHANGED <<cr1, cr2, dr, csctrl, rx_data, flags>>
          /\ LINE_IRQ \in acc'.driven
          /\ cs_lines'[LINE_IRQ] = IrqExpected(cr2', sr')
          /\ acc'.exch = <<>>]_vars

\* C5 witness: DR read with RXNE and OVR set and the RXNE interrupt
\* enabled: both bits cleared, the line taken low.
C5_Witness ==
    /\ IsAccess(acc, "read", SPI_DR)
    /\ acc.sr0 = {0, 1, 3}
    /\ sr = {1}
    /\ cr2 = {6}
    /\ cs_lines[LINE_IRQ] = 0

\* the low byte of the word the latest exchange since reset returned, 0 if
\* there was none
LastReceived == IF last_rx = NoRx THEN Zero ELSE last_rx[1] \cap U8Bits

C8_IrqLevel == cs_lines[LINE_IRQ] = IrqExpected(cr2, sr)

\* C8 witness: only the error interrupt enabled, a transfer has just set
\* OVR and the line is high.
C8_Witness ==
    /\ IsAccess(acc, "write", SPI_DR)
    /\ Len(acc.exch) = 1
    /\ acc.exch[1].irq = 0
    /\ cr2 = {5}
    /\ HasBit(sr, 3)
    /\ cs_lines[LINE_IRQ] = 1

\* C9: between accesses chip-select line i is at 0 iff csi_en && csi_act and
\* at 1 otherwise; CSCTRL = 0x11 gives CS0 = 0 and CS1 = 1.
C9_CsLevel ==
    /\ cs_lines[LINE_CS0] = (IF cs0_en /\ cs0_act THEN 0 ELSE 1)
    /\ cs_lines[LINE_CS1] = (IF cs1_en /\ cs1_act THEN 0 ELSE 1)
    /\ (IsAccess(acc, "write", SPI_CSCTRL) /\ acc.val = {0, 4}) =>
          (cs_lines[LINE_CS0] = 0 /\ cs_lines[LINE_CS1] = 1)

\* C9 witness: CSCTRL written with bits 0, 1, 4 and 5: both lines asserted
\* at once.
C9_Witness ==
    /\ IsAccess(acc, "write", SPI_CSCTRL)
    /\ acc.val = {0, 1, 4, 5}
    /\ cs_lines[LINE_CS0] = 0
    /\ cs_lines[LINE_CS1] = 0

\* C10: an access to an offset other than 0x00, 0x04, 0x08, 0x0C, 0x10
\* changes no register, rx_data, flag or output line and calls no exchange;
\* a read returns 0.
C10_InvalidOffset ==
    [][(acc'.kind \in {"read", "write"} /\ acc'.addr \notin {0, 4, 8, 12, 16}) =>
          /\ UNCHANGED <<regs, rx_data, flags, cs_lines>>
          /\ acc'.exch = <<>>
          /\ acc'.driven = {}
          /\ acc'.kind = "read" => acc'.ret = Zero]_vars

\* C10 witness: 0xFFFFFFFF written to offset 0x14 of a configured device
\* with a byte and an overrun pending.
C10_Witness ==
    /\ IsAccess(acc, "write", 20)
    /\ acc.val = AllOnes
    /\ sr = {0, 1, 3}
    /\ spe /\ mstr /\ cs0_en /\ cs0_act
    /\ acc.logged

\* C11: between accesses SR.BSY is 0, so an SR read returns bit 7 clear; BSY
\* is set only while the exchange runs.
C11_BsyNeverObservable ==
    /\ ~HasBit(sr, 7)
    /\ IsAccess(acc, "read", SPI_SR) => ~HasBit(acc.ret, 7)

\* C11 witness: a transfer during which the transport saw BSY set, over and
\* BSY clear again.
C11_Witness ==
    /\ IsAccess(acc, "write", SPI_DR)
    /\ Len(acc.exch) = 1
    /\ HasBit(acc.exch[1].sr, 7)
    /\ ~HasBit(sr, 7)

\* C12: between accesses SR.TXE is set; it is clear only while the exchange
\* runs.
C12_TxeAlwaysSet ==
    /\ HasBit(sr, 1)
    /\ acc.exch # <<>> => ~HasBit(acc.exch[1].sr, 1)

\* C12 witness: a transfer started from TXE|RXNE|OVR during which the
\* transport saw TXE clear, over and TXE set again.
C12_Witness ==
    /\ IsAccess(acc, "write", SPI_DR)
    /\ Len(acc.exch) = 1
    /\ acc.sr0 = {0, 1, 3}
    /\ ~HasBit(acc.exch[1].sr, 1)
    /\ HasBit(sr, 1)

\* C13 as claimed: once set, OVR is cleared only by an SR write with bit 3
\* set or by a DR read.
C13_OvrClearedOnlyBySrWriteOrDrRead ==
    [][(HasBit(sr, 3) /\ ~HasBit(sr', 3)) =>
          \/ IsAccess(acc', "write", SPI_SR) /\ HasBit(acc'.val, 3)
          \/ IsAccess(acc', "read", SPI_DR)]_vars

\* C13: once set, OVR stays set across every register access other than an
\* SR write with bit 3 set and a DR read; besides those two only a reset
\* clears it.
C13_OvrSticky ==
    [][(HasBit(sr, 3) /\ ~HasBit(sr', 3)) =>
          \/ IsAccess(acc', "write", SPI_SR) /\ HasBit(acc'.val, 3)
          \/ IsAccess(acc', "read", SPI_DR)
          \/ acc'.kind = "reset"]_vars

\* C13 witness: a further transfer made with OVR set: OVR is still set.
C13_Witness ==
    /\ IsAccess(acc, "write", SPI_DR)
    /\ Len(acc.exch) = 1
    /\ HasBit(acc.sr0, 3)
    /\ HasBit(sr, 3)

\* C14: every step calls the transport once if it is a DR write made while
\* the transfer condition holds and not at all otherwise, so calls and
\* qualifying DR writes are equal in number; the byte sent is the low 8 bits
\* of the value that very write carries.
C14_ExchangeOnlyByQualifyingDrWrite ==
    [][/\ Len(acc'.exch) =
             (IF IsAccess(acc', "write", SPI_DR) /\ Qualifying THEN 1 ELSE 0)
       /\ acc'.exch # <<>> => acc'.exch[1].tx = (acc'.val \cap U8Bits)]_vars

\* C14 witness: DR was written 0x5A while SPI was disabled, CR1 was then set
\* to SPE|MSTR with one chip select active, and nothing was sent.
C14_Witness ==
    /\ IsAccess(acc, "write", SPI_CR1)
    /\ acc.val = {2, 6}
    /\ dr = {1, 3, 4, 6}
    /\ cs0_en /\ cs0_act /\ ~(cs1_en /\ cs1_act)
    /\ last_rx = NoRx
    /\ acc.exch = <<>>

C16_TransferSteps ==
    [][(IsAccess(acc', "write", SPI_DR) /\ Qualifying) =>
          /\ Len(acc'.exch) = 1
          /\ acc'.exch[1].sr = (sr \ {1}) \cup {7}
          /\ acc'.exch[1].irq = cs_lines[LINE_IRQ]
          /\ sr' = ((sr \cup (IF HasBit(sr, 0) THEN {3} ELSE {})) \cup {0, 1}) \ {7}
          /\ last_rx' # NoRx
          /\ rx_data' = (last_rx'[1] \cap U8Bits)
          /\ LINE_IRQ \in acc'.driven
          /\ cs_lines'[LINE_IRQ] = IrqExpected(cr2', sr')]_vars

\* C16 witness: only the TXE interrupt enabled; during the exchange TXE was
\* clear and the line still high; afterwards the first overrun is flagged.
C16_Witness ==
    /\ IsAccess(acc, "write", SPI_DR)
    /\ Len(acc.exch) = 1
    /\ cr2 = {7}
    /\ acc.sr0 = {0, 1}
    /\ acc.exch[1].sr = {0, 7}
    /\ acc.exch[1].irq = 1
    /\ sr = {0, 1, 3}

\* C17: between accesses each flag equals the register bit it mirrors:
\* spe = CR1.6, mstr = CR1.2, cs0_en = CSCTRL.0, cs1_en = CSCTRL.1,
\* cs0_act = CSCTRL.4, cs1_act = CSCTRL.5.
C17_FlagMirror ==
    /\ spe = HasBit(cr1, 6)
    /\ mstr = HasBit(cr1, 2)
    /\ cs0_en = HasBit(csctrl, 0)
    /\ cs1_en = HasBit(csctrl, 1)
    /\ cs0_act = HasBit(csctrl, 4)
    /\ cs1_act = HasBit(csctrl, 5)

\* C18: SR.UDR is never set, and an interrupt raised with only the error
\* interrupt enabled has OVR as its cause.
C18_UdrNeverSet ==
    /\ ~HasBit(sr, 2)
    /\ (cs_lines[LINE_IRQ] = 1 /\ cr2 = {5}) => HasBit(sr, 3)

\* C18 witness: only the error interrupt enabled, UDR written 1 to clear with
\* an overrun pending: UDR clear, OVR set, the line high.
C18_Witness ==
    /\ IsAccess(acc, "write", SPI_SR)
    /\ acc.val = {2}
    /\ cr2 = {5}
    /\ sr = {0, 1, 3}
    /\ cs_lines[LINE_IRQ] = 1

\* C19: between accesses SR is TXE, TXE|RXNE or TXE|RXNE|OVR: OVR is never
\* set without RXNE and no other bit is ever set.
C19_SrValues ==
    /\ HasBit(sr, 3) => HasBit(sr, 0)
    /\ sr \in {{1}, {0, 1}, {0, 1, 3}}

\* C19 witness: SR read back as TXE|RXNE|OVR.
C19_Witness ==
    /\ IsAccess(acc, "read", SPI_SR)
    /\ acc.ret = {0, 1, 3}

\* C20: a read of CR1, CR2, SR or CSCTRL returns the stored word and changes
\* nothing, drives no line and calls no exchange; a write to CR1 changes
\* CR1, spe and mstr only.
C20_ReadsAndCr1WriteFrame ==
    [][/\ (acc'.kind = "read" /\ acc'.addr \in {0, 4, 8, 16}) =>
             /\ UNCHANGED <<regs, rx_data, flags, cs_lines>>
             /\ acc'.driven = {}
             /\ acc'.exch = <<>>
             /\ acc'.ret = (CASE acc'.addr = 0 -> cr1
                              [] acc'.addr = 4 -> cr2
                              [] acc'.addr = 8 -> sr
                              [] acc'.addr = 16 -> csctrl)
       /\ IsAccess(acc', "write", SPI_CR1) =>
             /\ UNCHANGED <<cr2, sr, dr, csctrl, rx_data,
                            cs0_en, cs0_act, cs1_en, cs1_act, cs_lines>>
             /\ acc'.exch = <<>>]_vars

\* C20 witness: 0xFFFFFFFF written to CR1 with chip select 0 asserted and an
\* overrun pending; all 32 bits are stored.
C20_Witness ==
    /\ IsAccess(acc, "write", SPI_CR1)
    /\ acc.val = AllOnes
    /\ cr1 = AllOnes
    /\ sr = {0, 1, 3}
    /\ cs_lines[LINE_CS0] = 0

====
